---------------------------- MODULE Spec2Model ----------------------------
(***************************************************************************)
(* MentiLive: the presenter view (PollPresenter.tsx) with the store and    *)
(* realtime channel it talks to, the participant view                      *)
(* (PollParticipant.tsx), the editor (PresentationCreator) and the page    *)
(* that renders them (Index.tsx).                                          *)
(*                                                                         *)
(* JavaScript values are tagged records: a string is a sequence of         *)
(* one-character strings, a number is an integer; r === x is equality of   *)
(* the tagged records (same type and same value).                          *)
(***************************************************************************)
EXTENDS Integers, Sequences, FiniteSets, TLC

VARIABLES
    store,                  \* the responses table: rows in insertion order
    loading,                \* PollPresenter state: loading
    questions,              \* PollPresenter state: questions
    currentQuestionIndex,   \* PollPresenter state: currentQuestionIndex
    responses,              \* PollPresenter state: responses {questionId: any[]}
    participantCount,       \* PollPresenter state: participantCount
    channel,                \* the 'responses' realtime channel: none / joining / joined
    events,                 \* INSERT payloads sent on the channel, not yet delivered
    fetch,                  \* fetchResponses: idle / requested / responded / failed / done
    fetchData,              \* the rows the store answered fetchResponses with
    lastOp,                 \* the handler that ran last, with what it was called on
    mounted,                \* the PollPresenter is mounted
    registered,             \* channels the presenter has registered with the client and not removed
    pollCode,               \* PollParticipant state: pollCode
    isJoined,               \* PollParticipant state: isJoined
    partCurrentQuestion,    \* PollParticipant state: currentQuestion
    selectedAnswer,         \* PollParticipant state: selectedAnswer
    textAnswer,             \* PollParticipant state: textAnswer
    hasAnswered,            \* PollParticipant state: hasAnswered
    timers,                 \* PollParticipant: pending setTimeout callbacks (the currentQuestion each captured)
    creatorQuestions,       \* PresentationCreator state: questions
    newQuestion,            \* PresentationCreator state: newQuestion
    isPresenting,           \* PresentationCreator state: isPresenting
    creatorPollCode,        \* PresentationCreator state: pollCode
    presentationId,         \* PresentationCreator state: presentationId
    creatorLoading,         \* PresentationCreator state: loading
    user,                   \* useAuth().user: TRUE when signed in
    startStep,              \* startPresentation: the await it is at
    codeData,               \* startPresentation: the generated access code, while it runs
    startQuestions,         \* startPresentation: the questions of the render that called it, while it runs
    presentations,          \* the presentations table
    questionsTable,         \* the questions table
    now,                    \* Date.now()
    currentView,            \* Index state: currentView
    route                   \* the location of the router: "/" or "/auth"

lifeVars == <<mounted, registered>>

partVars == <<pollCode, isJoined, partCurrentQuestion, selectedAnswer, textAnswer,
              hasAnswered, timers>>

creatorVars == <<creatorQuestions, newQuestion, isPresenting, creatorPollCode,
                 presentationId, creatorLoading, user, startStep, codeData,
                 startQuestions, presentations, questionsTable, now>>

indexVars == <<currentView, route>>

vars == <<store, loading, questions, currentQuestionIndex, responses,
          participantCount, channel, events, fetch, fetchData, lastOp,
          lifeVars, partVars, creatorVars, indexVars>>

----------------------------------------------------------------------------
(* Bounds of the model *)

MaxRows == 2        \* rows inserted into the responses table (Spec)
MaxResp == 3        \* responses delivered to one question (SpecAgg)

----------------------------------------------------------------------------
(* JavaScript values *)

Str(s) == [t |-> "str", n |-> 0, s |-> s]
Num(n) == [t |-> "num", n |-> n, s |-> <<>>]

Digits == <<"0", "1", "2", "3", "4", "5", "6", "7", "8", "9">>

IsDigit(c) == \E d \in 1..10 : Digits[d] = c

DigitValue(c) == (CHOOSE d \in 1..10 : Digits[d] = c) - 1

RECURSIVE NumToStr(_)
\* String(n) for an integer n >= 0
NumToStr(n) ==
    IF n < 10 THEN <<Digits[n + 1]>>
    ELSE Append(NumToStr(n \div 10), Digits[(n % 10) + 1])

RECURSIVE StrToNum(_)
\* the value of a string of digits
StrToNum(s) ==
    IF s = <<>> THEN 0
    ELSE 10 * StrToNum(SubSeq(s, 1, Len(s) - 1)) + DigitValue(s[Len(s)])

\* A property key is an integer index when it is the canonical decimal form
\* of an integer in 0 .. 2^32 - 2: such keys are enumerated first, ascending.
\* Every canonical form of up to nine digits is one; the keys of the model
\* are shorter than ten characters.
IsArrayIndex(s) ==
    /\ Len(s) \in 1..9
    /\ \A i \in 1..Len(s) : IsDigit(s[i])
    /\ (Len(s) > 1 => s[1] # "0")

\* ToPropertyKey: the key under which counts[x] stores a value
KeyOf(v) == IF v.t = "num" THEN NumToStr(v.n) ELSE v.s

RECURSIVE Dedup(_)
\* the keys of a sequence of assignments, each at its first assignment
Dedup(ks) ==
    IF ks = <<>> THEN <<>>
    ELSE LET init == Dedup(SubSeq(ks, 1, Len(ks) - 1))
             k == ks[Len(ks)]
         IN IF \E i \in 1..Len(init) : init[i] = k THEN init ELSE Append(init, k)

RECURSIVE InsertAscending(_, _)
InsertAscending(sorted, k) ==
    IF sorted = <<>> THEN <<k>>
    ELSE IF StrToNum(k) < StrToNum(Head(sorted)) THEN <<k>> \o sorted
    ELSE <<Head(sorted)>> \o InsertAscending(Tail(sorted), k)

RECURSIVE SortAscending(_)
SortAscending(ks) ==
    IF ks = <<>> THEN <<>>
    ELSE InsertAscending(SortAscending(SubSeq(ks, 1, Len(ks) - 1)), ks[Len(ks)])

\* The order in which Object.entries enumerates an object whose keys were
\* first assigned in the order ks: integer keys ascending, then the other
\* keys in the order of their creation.
OwnKeys(ks) ==
    LET ds == Dedup(ks)
    IN SortAscending(SelectSeq(ds, IsArrayIndex))
         \o SelectSeq(ds, LAMBDA k : ~IsArrayIndex(k))

\* arr.filter(r => r === x).length
CountEq(arr, x) == Cardinality({i \in 1..Len(arr) : arr[i] = x})

----------------------------------------------------------------------------
(* The questions table *)

MultipleChoiceQ(id, opts, ix) ==
    [id |-> id, question_type |-> "multiple_choice", options |-> opts, order_index |-> ix]

\* a question without options: options is undefined, and options?.forEach
\* visits nothing, as for the empty list
PlainQ(id, type, ix) ==
    [id |-> id, question_type |-> type, options |-> <<>>, order_index |-> ix]

OptA == <<"A">>
OptB == <<"B">>
OptC == <<"C">>

\* the rows of the presentation, as fetchQuestions gets them (ordered by order_index)
DbQuestions ==
    << MultipleChoiceQ("q1", <<OptA, OptB>>, 0),
       PlainQ("q2", "rating", 1),
       PlainQ("q3", "word_cloud", 2),
       PlainQ("q4", "open_ended", 3) >>

QuestionIds(qs) == {qs[i].id : i \in 1..Len(qs)}

W_fun == <<"f", "u", "n">>
W_Fun == <<"F", "u", "n">>
W_great == <<"g", "r", "e", "a", "t">>
W_b == <<"b">>
W_1 == <<"1">>

\* what a client may insert as response_data for a question of the type
ValuesOf(type) ==
    CASE type = "multiple_choice" -> {Str(OptA), Str(OptC)}
      [] type = "rating" -> {Num(7), Num(11)}
      [] OTHER -> {Str(W_fun)}

Row(q, v) == [question_id |-> q, response_data |-> v]

----------------------------------------------------------------------------
(* Initial state of PollParticipant and PresentationCreator *)

Null == [t |-> "null", n |-> 0, s |-> <<>>]

\* the useState initial values of PollParticipant
PartInit ==
    /\ pollCode = <<>>
    /\ isJoined = FALSE
    /\ partCurrentQuestion = 0
    /\ selectedAnswer = Null
    /\ textAnswer = <<>>
    /\ hasAnswered = FALSE
    /\ timers = <<>>

\* useState<Partial<Question>>({}): an absent field is the empty value
EmptyQuestion == [question_text |-> <<>>, type |-> "", options |-> <<>>]

\* the useState initial values of PresentationCreator, with empty tables
\* useState('home'); the page is served at "/"
IndexInit == currentView = "home" /\ route = "/"

CreatorInit ==
    /\ creatorQuestions = <<>>
    /\ newQuestion = EmptyQuestion
    /\ isPresenting = FALSE
    /\ creatorPollCode = <<>>
    /\ presentationId = 0
    /\ creatorLoading = FALSE
    /\ user = TRUE
    /\ startStep = "idle"
    /\ codeData = <<>>
    /\ startQuestions = <<>>
    /\ presentations = <<>>
    /\ questionsTable = <<>>
    /\ now = 0

----------------------------------------------------------------------------
(* PollPresenter *)

Get(resp, q) == IF q \in DOMAIN resp THEN resp[q] ELSE <<>>

\* const currentQuestion = questions[currentQuestionIndex]
HasCurrentQuestion == currentQuestionIndex + 1 \in 1..Len(questions)

currentQuestion == questions[currentQuestionIndex + 1]

\* the view below the loading and "No questions found" screens is rendered
ViewShown == ~loading /\ Len(questions) > 0

\* .select('*').in('question_id', questionIds)
SelectIn(rows, ids) == SelectSeq(rows, LAMBDA r : r.question_id \in ids)

RowsOf(rows, q) == SelectSeq(rows, LAMBDA r : r.question_id = q)

RECURSIVE DataOf(_)
DataOf(rows) ==
    IF rows = <<>> THEN <<>> ELSE <<Head(rows).response_data>> \o DataOf(Tail(rows))

\* a faulty grouping: every key gets the data of all the rows
GroupedUnfiltered(data) ==
    [q \in {data[i].question_id : i \in 1..Len(data)} |-> DataOf(data)]

\* groupedResponses of fetchResponses
Grouped(data) ==
    [q \in {data[i].question_id : i \in 1..Len(data)} |-> DataOf(RowsOf(data, q))]

\* a faulty updater: it keeps only the responses for the displayed question
PushedIfCurrent(prev, newResponse) ==
    IF newResponse.question_id = questions[currentQuestionIndex + 1].id
    THEN [q \in DOMAIN prev \cup {newResponse.question_id} |->
            IF q = newResponse.question_id
            THEN Append(IF q \in DOMAIN prev THEN prev[q] ELSE <<>>,
                        newResponse.response_data)
            ELSE prev[q]]
    ELSE prev

\* the setResponses updater of the INSERT callback
Pushed(prev, newResponse) ==
    [q \in DOMAIN prev \cup {newResponse.question_id} |->
        IF q = newResponse.question_id
        THEN Append(Get(prev, q), newResponse.response_data)
        ELSE prev[q]]

Op(name, q) == [op |-> name, question_id |-> q, index |-> currentQuestionIndex]

Init ==
    /\ store = <<>>
    /\ loading = TRUE
    /\ questions = <<>>
    /\ currentQuestionIndex = 0
    /\ responses = <<>>
    /\ participantCount = 0
    /\ channel = "none"
    /\ events = <<>>
    /\ fetch = "idle"
    /\ fetchData = <<>>
    /\ lastOp = [op |-> "mount", question_id |-> "", index |-> 0]
    /\ mounted = TRUE
    /\ registered = 0
    /\ PartInit
    /\ CreatorInit
    /\ IndexInit

\* fetchQuestions succeeds; the two effects on [questions] then run: the
\* channel is created and asked to subscribe, and fetchResponses is called.
FetchQuestionsDone ==
    /\ loading
    /\ questions' = DbQuestions
    /\ loading' = FALSE
    /\ channel' = IF Len(DbQuestions) = 0 THEN channel ELSE "joining"
    /\ fetch' = IF Len(DbQuestions) = 0 THEN fetch ELSE "requested"
    /\ registered' = IF Len(DbQuestions) = 0 THEN registered ELSE registered + 1
    /\ lastOp' = Op("fetchQuestions", "")
    /\ UNCHANGED <<indexVars, mounted, partVars, creatorVars, store, currentQuestionIndex, responses, participantCount,
                   events, fetchData>>

\* fetchQuestions fails: the toast, and loading ends with no questions
FetchQuestionsError ==
    /\ loading
    /\ loading' = FALSE
    /\ lastOp' = Op("fetchQuestionsError", "")
    /\ UNCHANGED <<indexVars, lifeVars, partVars, creatorVars, store, questions, currentQuestionIndex, responses,
                   participantCount, channel, events, fetch, fetchData>>

\* the realtime server acknowledges .subscribe(): inserts from now on are sent
ChannelJoined ==
    /\ channel = "joining"
    /\ channel' = "joined"
    /\ lastOp' = Op("joined", "")
    /\ UNCHANGED <<indexVars, lifeVars, partVars, creatorVars, store, loading, questions, currentQuestionIndex, responses,
                   participantCount, events, fetch, fetchData>>

\* a client inserts a response row; the channel's filter selects the
\* presentation's questions
StoreInsert(q, v) ==
    /\ Len(store) < MaxRows
    /\ store' = Append(store, Row(q, v))
    /\ events' = IF channel = "joined" /\ q \in QuestionIds(questions)
                 THEN Append(events, Row(q, v))
                 ELSE events
    /\ lastOp' = Op("storeInsert", q)
    /\ UNCHANGED <<indexVars, lifeVars, partVars, creatorVars, loading, questions, currentQuestionIndex, responses,
                   participantCount, channel, fetch, fetchData>>

\* a faulty callback: it records the response and does not count it
CallbackUncounted(newResponse) ==
    /\ responses' = Pushed(responses, newResponse)
    /\ participantCount' = participantCount

\* the INSERT callback
Callback(newResponse) ==
    /\ responses' = Pushed(responses, newResponse)
    /\ participantCount' = participantCount + 1

InsertCallback ==
    /\ events # <<>>
    /\ Callback(Head(events))
    /\ events' = Tail(events)
    /\ lastOp' = Op("insert", Head(events).question_id)
    /\ UNCHANGED <<indexVars, lifeVars, partVars, creatorVars, store, loading, questions, currentQuestionIndex, channel,
                   fetch, fetchData>>

\* the store answers the query of fetchResponses
FetchQuery ==
    /\ fetch = "requested"
    /\ fetchData' = SelectIn(store, QuestionIds(questions))
    /\ fetch' = "responded"
    /\ lastOp' = Op("fetchQuery", "")
    /\ UNCHANGED <<indexVars, lifeVars, partVars, creatorVars, store, loading, questions, currentQuestionIndex, responses,
                   participantCount, channel, events>>

\* the query fails: console.error and return
FetchResponsesError ==
    /\ fetch = "requested"
    /\ fetch' = "failed"
    /\ lastOp' = Op("fetchResponsesError", "")
    /\ UNCHANGED <<indexVars, lifeVars, partVars, creatorVars, store, loading, questions, currentQuestionIndex, responses,
                   participantCount, channel, events, fetchData>>

\* fetchResponses continues after the await
FetchResponsesDone ==
    /\ fetch = "responded"
    /\ responses' = Grouped(fetchData)
    /\ participantCount' = Len(fetchData)
    /\ fetch' = "done"
    /\ lastOp' = Op("fetchResponses", "")
    /\ UNCHANGED <<indexVars, lifeVars, partVars, creatorVars, store, loading, questions, currentQuestionIndex, channel,
                   events, fetchData>>

\* a faulty nextQuestion: the comparison off by one
NextIndexOffByOne(ix, len) == IF ix <= len - 1 THEN ix + 1 ELSE ix

NextIndex(ix, len) == IF ix < len - 1 THEN ix + 1 ELSE ix

\* a faulty prevQuestion: the comparison off by one
PrevIndexOffByOne(ix) == IF ix >= 0 THEN ix - 1 ELSE ix

PrevIndex(ix) == IF ix > 0 THEN ix - 1 ELSE ix

\* a faulty nextQuestion: it also clears the recorded responses
nextQuestionResetting ==
    /\ ~loading /\ Len(questions) > 0
    /\ currentQuestionIndex' = NextIndex(currentQuestionIndex, Len(questions))
    /\ responses' = <<>>
    /\ lastOp' = Op("nextQuestion", "")
    /\ UNCHANGED <<indexVars, lifeVars, partVars, creatorVars, store, loading, questions, participantCount,
                   channel, events, fetch, fetchData>>

\* nextQuestion, as a call of the function (the button that calls it is
\* disabled at the last index)
nextQuestion ==
    /\ ViewShown
    /\ currentQuestionIndex' = NextIndex(currentQuestionIndex, Len(questions))
    /\ lastOp' = Op("nextQuestion", "")
    /\ UNCHANGED <<indexVars, lifeVars, partVars, creatorVars, store, loading, questions, responses, participantCount,
                   channel, events, fetch, fetchData>>

prevQuestion ==
    /\ ViewShown
    /\ currentQuestionIndex' = PrevIndex(currentQuestionIndex)
    /\ lastOp' = Op("prevQuestion", "")
    /\ UNCHANGED <<indexVars, lifeVars, partVars, creatorVars, store, loading, questions, responses, participantCount,
                   channel, events, fetch, fetchData>>

Insert ==
    \E i \in 1..Len(DbQuestions) :
        \E v \in ValuesOf(DbQuestions[i].question_type) :
            StoreInsert(DbQuestions[i].id, v)

Next ==
    \/ FetchQuestionsDone
    \/ FetchQuestionsError
    \/ ChannelJoined
    \/ Insert
    \/ InsertCallback
    \/ FetchQuery
    \/ FetchResponsesError
    \/ FetchResponsesDone
    \/ nextQuestion
    \/ prevQuestion

Spec == Init /\ [][Next]_vars

----------------------------------------------------------------------------
(* getChartData and getWordCloudData *)

RatingMax == 10     \* for (let i = 1; i <= 10; i++)
TopWords == 10      \* .slice(0, 10)

\* the value an object holds under key k after the assignments as (<<key, value>>)
RECURSIVE LastValue(_, _)
LastValue(as, k) ==
    IF as[Len(as)][1] = k THEN as[Len(as)][2]
    ELSE LastValue(SubSeq(as, 1, Len(as) - 1), k)

\* Object.entries(counts), counts built by the assignments as
ObjectEntries(as) ==
    LET ks == OwnKeys([i \in 1..Len(as) |-> as[i][1]])
    IN [j \in 1..Len(ks) |-> <<ks[j], LastValue(as, ks[j])>>]

\* counts[option] = questionResponses.filter(r => r === option).length
OptionAssignments(options, questionResponses) ==
    [i \in 1..Len(options) |->
        <<options[i], CountEq(questionResponses, Str(options[i]))>>]

\* a faulty loop: it stops before RatingMax
RatingAssignmentsShort(questionResponses) ==
    [i \in 1..(RatingMax - 1) |->
        <<NumToStr(i), Cardinality({j \in 1..Len(questionResponses) :
                           questionResponses[j] = Num(i)})>>]

\* counts[i] = questionResponses.filter(r => r === i).length, i = 1 .. 10
RatingAssignments(questionResponses) ==
    [i \in 1..RatingMax |-> <<NumToStr(i), CountEq(questionResponses, Num(i))>>]

\* counts[word] = (counts[word] || 0) + 1
WordAssignments(questionResponses) ==
    [i \in 1..Len(questionResponses) |->
        <<KeyOf(questionResponses[i]),
          Cardinality({j \in 1..i :
              KeyOf(questionResponses[j]) = KeyOf(questionResponses[i])})>>]

ChartOf(question, questionResponses) ==
    LET es == IF question.question_type = "multiple_choice"
                THEN ObjectEntries(OptionAssignments(question.options, questionResponses))
              ELSE IF question.question_type = "rating"
                THEN ObjectEntries(RatingAssignments(questionResponses))
              ELSE <<>>
    IN [j \in 1..Len(es) |-> [name |-> es[j][1], value |-> es[j][2]]]

getChartData ==
    IF ~HasCurrentQuestion THEN <<>>
    ELSE ChartOf(currentQuestion, Get(responses, currentQuestion.id))

\* e goes behind every entry whose count is not smaller: the sort is stable
RECURSIVE InsertByCount(_, _)
InsertByCount(sorted, e) ==
    IF sorted = <<>> THEN <<e>>
    ELSE IF e.count > Head(sorted).count THEN <<e>> \o sorted
    ELSE <<Head(sorted)>> \o InsertByCount(Tail(sorted), e)

\* .sort((a, b) => b.count - a.count)
RECURSIVE SortByCount(_)
SortByCount(es) ==
    IF es = <<>> THEN <<>>
    ELSE InsertByCount(SortByCount(SubSeq(es, 1, Len(es) - 1)), es[Len(es)])

Slice(es, k) == SubSeq(es, 1, IF Len(es) < k THEN Len(es) ELSE k)

WordCloudOf(questionResponses) ==
    LET es == ObjectEntries(WordAssignments(questionResponses))
    IN Slice(SortByCount([j \in 1..Len(es) |-> [word |-> es[j][1], count |-> es[j][2]]]),
             TopWords)

getWordCloudData ==
    IF ~HasCurrentQuestion THEN <<>>
    ELSE WordCloudOf(Get(responses, currentQuestion.id))

\* {(responses[currentQuestion.id] || []).length} responses received
responsesReceived == Len(Get(responses, currentQuestion.id))

----------------------------------------------------------------------------
(* The presenter of a one-question presentation, loaded and subscribed,     *)
(* receiving each inserted response before the next is inserted.            *)

W_sp_fun == <<" ", "f", "u", "n">>

AggQuestions ==
    { <<MultipleChoiceQ("m", <<OptA, OptB>>, 0)>>,
      <<PlainQ("r", "rating", 0)>>,
      <<PlainQ("w", "word_cloud", 0)>> }

AggValuesOf(type) ==
    CASE type = "multiple_choice" -> {Str(OptA), Str(OptB), Str(OptC)}
      [] type = "rating" -> {Num(3), Num(7), Num(11), Str(<<"7">>)}
      [] OTHER -> {Str(W_Fun), Str(W_fun), Str(W_great), Str(W_sp_fun), Str(W_b), Str(W_1)}

InitAgg ==
    /\ store = <<>>
    /\ loading = FALSE
    /\ questions \in AggQuestions
    /\ currentQuestionIndex = 0
    /\ responses = <<>>
    /\ participantCount = 0
    /\ channel = "joined"
    /\ events = <<>>
    /\ fetch = "done"
    /\ fetchData = <<>>
    /\ lastOp = [op |-> "fetchResponses", question_id |-> "", index |-> 0]
    /\ mounted = TRUE
    /\ registered = 1
    /\ PartInit
    /\ CreatorInit
    /\ IndexInit

\* a row is inserted and its INSERT payload is delivered to the callback
Receive ==
    \E v \in AggValuesOf(currentQuestion.question_type) :
        /\ Len(store) < MaxResp
        /\ store' = Append(store, Row(currentQuestion.id, v))
        /\ Callback(Row(currentQuestion.id, v))
        /\ lastOp' = Op("insert", currentQuestion.id)
        /\ UNCHANGED <<indexVars, lifeVars, partVars, creatorVars, loading, questions, currentQuestionIndex, channel, events,
                       fetch, fetchData>>

NextAgg == Receive

SpecAgg == InitAgg /\ [][NextAgg]_vars

----------------------------------------------------------------------------
(* Properties *)

RECURSIVE SumValues(_)
SumValues(chart) ==
    IF chart = <<>> THEN 0 ELSE Head(chart).value + SumValues(Tail(chart))

\* the step is a delivery of the oldest undelivered INSERT payload
InsertStep ==
    /\ events # <<>>
    /\ events' = Tail(events)
    /\ lastOp'.op = "insert"

\* the question of the presentation with the id q
QuestionOf(q) == questions[CHOOSE i \in 1..Len(questions) : questions[i].id = q]

\* every payload sent and every fetch started has been delivered
AllDelivered == channel = "joined" /\ events = <<>> /\ fetch = "done"

\* C1: once the initial fetch and every INSERT event have been delivered,
\* responses[question_id] has as many entries as the store has rows for the
\* question, for every question: no row counted twice, none dropped.
C1_StoredRowsCountedOnce ==
    AllDelivered =>
        \A i \in 1..Len(questions) :
            Len(Get(responses, questions[i].id)) = Len(RowsOf(store, questions[i].id))

\* C2: for a multiple_choice question the names of getChartData are declared
\* options, and its values sum to the number of responses received.
C2_ChartSumIsResponsesReceived ==
    (ViewShown /\ currentQuestion.question_type = "multiple_choice") =>
        /\ \A j \in 1..Len(getChartData) :
               \E k \in 1..Len(currentQuestion.options) :
                   getChartData[j].name = currentQuestion.options[k]
        /\ SumValues(getChartData) = responsesReceived

\* the payload delivered by the step is for a question that is not displayed
StaleInsertStep ==
    /\ InsertStep
    /\ ViewShown
    /\ Head(events).question_id # currentQuestion.id

C4_SnapshotNeverPartial ==
    (ViewShown /\ channel # "none") =>
        Len(Get(responses, currentQuestion.id))
            >= Len(RowsOf(store, currentQuestion.id))

\* C5: nextQuestion at the last index and prevQuestion at index 0 change
\* nothing: not the index, not the displayed question, not responses,
\* participantCount or questions.
C5_BoundaryNavigationNoOp ==
    [][((lastOp'.op = "nextQuestion" /\ currentQuestionIndex = Len(questions) - 1)
          \/ (lastOp'.op = "prevQuestion" /\ currentQuestionIndex = 0)) =>
            /\ currentQuestionIndex' = currentQuestionIndex
            /\ HasCurrentQuestion'
            /\ currentQuestion' = currentQuestion
            /\ UNCHANGED <<responses, participantCount, questions>>]_vars

\* nextQuestion has been called at the last index of a presentation that
\* has received responses
C5_Witness ==
    /\ lastOp.op = "nextQuestion"
    /\ Len(questions) > 1
    /\ lastOp.index = Len(questions) - 1
    /\ currentQuestionIndex = Len(questions) - 1
    /\ participantCount > 0

\* C6: with a non-empty question list currentQuestionIndex is an index of
\* it; a call of nextQuestion adds one to it or leaves it, a call of
\* prevQuestion subtracts one or leaves it, and nothing else changes it.
C6_IndexInRangeAndStepsByOne ==
    /\ [](Len(questions) > 0 => currentQuestionIndex \in 0..(Len(questions) - 1))
    /\ [][/\ lastOp'.op = "nextQuestion" =>
                currentQuestionIndex' \in {currentQuestionIndex, currentQuestionIndex + 1}
          /\ lastOp'.op = "prevQuestion" =>
                currentQuestionIndex' \in {currentQuestionIndex, currentQuestionIndex - 1}
          /\ lastOp'.op \notin {"nextQuestion", "prevQuestion"} =>
                currentQuestionIndex' = currentQuestionIndex]_vars

\* prevQuestion has moved the index back from the last question while
\* responses kept arriving
C6_Witness ==
    /\ lastOp.op = "prevQuestion"
    /\ lastOp.index = 2
    /\ currentQuestionIndex = 1
    /\ participantCount > 0
    /\ events # <<>>

\* the displayed question is a word_cloud question
ShowsWordCloud == ViewShown /\ currentQuestion.question_type = "word_cloud"

\* the place of the first response stored under the key k
FirstSeen(questionResponses, k) ==
    CHOOSE i \in 1..Len(questionResponses) :
        /\ KeyOf(questionResponses[i]) = k
        /\ \A j \in 1..(i - 1) : KeyOf(questionResponses[j]) # k

UpperCase == <<"A", "B", "C", "D", "F", "Z">>
LowerCase == <<"a", "b", "c", "d", "f", "z">>

\* String.prototype.toLowerCase, on the letters of the model
ToLowerChar(c) ==
    IF \E i \in 1..Len(UpperCase) : UpperCase[i] = c
    THEN LowerCase[CHOOSE i \in 1..Len(UpperCase) : UpperCase[i] = c]
    ELSE c

RECURSIVE TrimStart(_)
TrimStart(s) == IF s # <<>> /\ Head(s) = " " THEN TrimStart(Tail(s)) ELSE s

RECURSIVE TrimEnd(_)
TrimEnd(s) ==
    IF s # <<>> /\ s[Len(s)] = " " THEN TrimEnd(SubSeq(s, 1, Len(s) - 1)) ELSE s

\* the normalized token of a word-cloud response: lower-cased and trimmed
Normalize(s) == LET t == TrimEnd(TrimStart(s)) IN [i \in 1..Len(t) |-> ToLowerChar(t[i])]

ShowsRating == ViewShown /\ currentQuestion.question_type = "rating"

\* C9: for a rating question getChartData has exactly the names 1 .. 10, in
\* this order, each with the number of responses that are this number (0 when
\* there is none); the responses 7, 3, 7 give 7: 2, 3: 1 and 0 elsewhere.
C9_RatingChartCountsEachValue ==
    ShowsRating =>
        LET rs == Get(responses, currentQuestion.id)
            chart == getChartData
        IN /\ Len(chart) = 10
           /\ \A i \in 1..10 :
                  /\ chart[i].name = NumToStr(i)
                  /\ chart[i].value =
                        Len(SelectSeq(rs, LAMBDA r : r.t = "num" /\ r.n = i))
           /\ rs = <<Num(7), Num(3), Num(7)>> =>
                  \A i \in 1..10 :
                      chart[i].value = IF i = 7 THEN 2 ELSE IF i = 3 THEN 1 ELSE 0

\* the rating question has received 7, 3, 7
C9_Witness ==
    /\ ShowsRating
    /\ lastOp.op = "insert"
    /\ Get(responses, currentQuestion.id) = <<Num(7), Num(3), Num(7)>>
    /\ getChartData[7].value = 2

\* the payload delivered by the step is a rating outside 1 .. 10
OutOfRangeInsertStep ==
    /\ InsertStep
    /\ QuestionOf(Head(events).question_id).question_type = "rating"
    /\ Head(events).response_data.t = "num"
    /\ Head(events).response_data.n \notin 1..10

\* C10: a rating outside 1 .. 10 has no effect: it enters no list of
\* responses (so no aggregate and no responses-received count) and does not
\* increase participantCount.
C10_OutOfRangeRatingHasNoEffect ==
    [][OutOfRangeInsertStep =>
          /\ responses' = responses
          /\ participantCount' = participantCount]_vars

----------------------------------------------------------------------------
(* PollParticipant.  The file declares the state as CurrentlQuestion and    *)
(* pollcode and reads it as currentQuestion and pollCode; the model takes   *)
(* the two spellings of each as one state variable.                         *)

MockQuestion(id, type, opts) == [id |-> id, type |-> type, options |-> opts]

mockQuestions ==
    << MockQuestion("1", "multiple-choice",
           << <<"JavaScript">>, <<"Python">>, <<"Java">>, <<"C++">>, <<"Go">> >>),
       MockQuestion("2", "scale", <<>>),
       MockQuestion("3", "word-cloud", <<>>),
       MockQuestion("4", "open-text", <<>>) >>

ScaleMax == 10      \* Array.from({length: 10}, (_, i) => i + 1)
MinCodeLength == 4  \* pollcode.length < 4
MaxCodeLength == 8  \* maxLength={8}

\* const question = mockQuestions[currentQuestion]
partQuestion == mockQuestions[partCurrentQuestion + 1]

\* String.prototype.toUpperCase, on the letters of the model
ToUpperChar(c) ==
    IF \E i \in 1..Len(LowerCase) : LowerCase[i] = c
    THEN UpperCase[CHOOSE i \in 1..Len(LowerCase) : LowerCase[i] = c]
    ELSE c

ToUpperCase(s) == [i \in 1..Len(s) |-> ToUpperChar(s[i])]

Code_ABCD == <<"A", "B", "C", "D">>

\* what is typed into the Poll Code input
CodeInputs == { <<"a", "b">>, <<"a", "b", "c", "d">>, <<"z", "z", "z", "z">> }

\* what is typed into the answer input
TextInputs == { <<>>, <<" ">>, W_fun, W_sp_fun }

POp(name) == [op |-> name, question_id |-> partQuestion.id, index |-> partCurrentQuestion]

presenterVars == <<store, loading, questions, currentQuestionIndex, responses,
                   participantCount, channel, events, fetch, fetchData>>

\* the participant page: no presenter is mounted here, and the presentations
\* table holds one active presentation, with the access code ABCD
InitPart ==
    /\ store = <<>>
    /\ loading = TRUE
    /\ questions = <<>>
    /\ currentQuestionIndex = 0
    /\ responses = <<>>
    /\ participantCount = 0
    /\ channel = "none"
    /\ events = <<>>
    /\ fetch = "idle"
    /\ fetchData = <<>>
    /\ lastOp = [op |-> "mount", question_id |-> "", index |-> 0]
    /\ mounted = FALSE
    /\ registered = 0
    /\ PartInit
    /\ creatorQuestions = <<>>
    /\ newQuestion = EmptyQuestion
    /\ isPresenting = FALSE
    /\ creatorPollCode = <<>>
    /\ presentationId = 0
    /\ creatorLoading = FALSE
    /\ user = FALSE
    /\ startStep = "idle"
    /\ codeData = <<>>
    /\ startQuestions = <<>>
    /\ presentations = << [id |-> 1, access_code |-> Code_ABCD, is_active |-> TRUE] >>
    /\ questionsTable = <<>>
    /\ now = 0
    /\ IndexInit

\* onChange of the Poll Code input
SetPollCode ==
    \E v \in CodeInputs :
        /\ ~isJoined
        /\ Len(v) <= MaxCodeLength
        /\ pollCode' = ToUpperCase(v)
        /\ lastOp' = POp("setPollCode")
        /\ UNCHANGED <<indexVars, presenterVars, lifeVars, creatorVars, isJoined,
                       partCurrentQuestion, selectedAnswer, textAnswer, hasAnswered,
                       timers>>

joinPoll ==
    /\ ~isJoined
    /\ isJoined' = (IF Len(pollCode) < MinCodeLength THEN isJoined ELSE TRUE)
    /\ lastOp' = POp("joinPoll")
    /\ UNCHANGED <<indexVars, presenterVars, lifeVars, creatorVars, pollCode,
                   partCurrentQuestion, selectedAnswer, textAnswer, hasAnswered, timers>>

\* a faulty rendering: the form stays after an answer was accepted
FormShownAfterAnswer == isJoined

\* the question form is rendered
FormShown == isJoined /\ ~hasAnswered

\* what the buttons of the displayed question set selectedAnswer to
Choices ==
    IF partQuestion.type = "multiple-choice"
    THEN {Str(partQuestion.options[i]) : i \in 1..Len(partQuestion.options)}
    ELSE IF partQuestion.type = "scale" THEN {Num(i) : i \in 1..ScaleMax}
    ELSE {}

\* onClick of an option or scale button
SelectAnswer ==
    \E v \in Choices :
        /\ FormShown
        /\ selectedAnswer' = v
        /\ lastOp' = POp("setSelectedAnswer")
        /\ UNCHANGED <<indexVars, presenterVars, lifeVars, creatorVars, pollCode, isJoined,
                       partCurrentQuestion, textAnswer, hasAnswered, timers>>

\* onChange of the answer input
TypeAnswer ==
    \E v \in TextInputs :
        /\ FormShown
        /\ partQuestion.type \in {"word-cloud", "open-text"}
        /\ textAnswer' = v
        /\ lastOp' = POp("setTextAnswer")
        /\ UNCHANGED <<indexVars, presenterVars, lifeVars, creatorVars, pollCode, isJoined,
                       partCurrentQuestion, selectedAnswer, hasAnswered, timers>>

\* a faulty check: it does not trim the text
AnswerMissingUntrimmed ==
    IF mockQuestions[partCurrentQuestion + 1].type \in {"open-text", "word-cloud"}
    THEN textAnswer = <<>>
    ELSE selectedAnswer = Null

\* the two "Answer Required" branches of submitAnswer
AnswerMissing ==
    IF partQuestion.type \in {"open-text", "word-cloud"}
    THEN TrimEnd(TrimStart(textAnswer)) = <<>>
    ELSE selectedAnswer = Null

submitAnswer ==
    /\ FormShown
    /\ IF AnswerMissing
       THEN UNCHANGED <<hasAnswered, timers>>
       ELSE /\ hasAnswered' = TRUE
            /\ timers' = Append(timers, partCurrentQuestion)
    /\ lastOp' = POp("submitAnswer")
    /\ UNCHANGED <<indexVars, presenterVars, lifeVars, creatorVars, pollCode, isJoined,
                   partCurrentQuestion, selectedAnswer, textAnswer>>

\* a faulty callback: it moves on and keeps the answer entered
TimerFiresKeepingAnswer ==
    /\ timers # <<>>
    /\ timers' = Tail(timers)
    /\ IF Head(timers) < Len(mockQuestions) - 1
       THEN /\ partCurrentQuestion' = Head(timers) + 1
            /\ hasAnswered' = FALSE
            /\ UNCHANGED <<selectedAnswer, textAnswer>>
       ELSE UNCHANGED <<partCurrentQuestion, selectedAnswer, textAnswer, hasAnswered>>
    /\ lastOp' = POp("timer")
    /\ UNCHANGED <<indexVars, presenterVars, lifeVars, creatorVars, pollCode, isJoined>>

\* the setTimeout callback, 2 seconds after an accepted answer; it reads the
\* currentQuestion of the render that called submitAnswer
TimerFires ==
    /\ timers # <<>>
    /\ timers' = Tail(timers)
    /\ IF Head(timers) < Len(mockQuestions) - 1
       THEN /\ partCurrentQuestion' = Head(timers) + 1
            /\ selectedAnswer' = Null
            /\ textAnswer' = <<>>
            /\ hasAnswered' = FALSE
       ELSE UNCHANGED <<partCurrentQuestion, selectedAnswer, textAnswer, hasAnswered>>
    /\ lastOp' = POp("timer")
    /\ UNCHANGED <<indexVars, presenterVars, lifeVars, creatorVars, pollCode, isJoined>>

NextPart ==
    \/ SetPollCode
    \/ joinPoll
    \/ SelectAnswer
    \/ TypeAnswer
    \/ submitAnswer
    \/ TimerFires

SpecPart == InitPart /\ [][NextPart]_vars

\* the step is a call of submitAnswer
SubmitStep == FormShown /\ lastOp'.op = "submitAnswer"

\* the answer state of the form is empty: no text but whitespace on a text
\* question, nothing selected on a choice or scale question
NothingEntered ==
    \/ /\ partQuestion.type \in {"open-text", "word-cloud"}
       /\ \A i \in 1..Len(textAnswer) : textAnswer[i] = " "
    \/ /\ partQuestion.type \in {"multiple-choice", "scale"}
       /\ selectedAnswer = Null

\* C11: submitAnswer with an empty or whitespace-only text (open-text,
\* word-cloud) or with nothing selected (multiple-choice, scale) is rejected:
\* hasAnswered stays false, the question index stays, no timer is started
\* and the entered answer is left as it was.
C11_EmptyAnswerRejected ==
    [][(SubmitStep /\ NothingEntered) =>
          /\ hasAnswered' = FALSE
          /\ partCurrentQuestion' = partCurrentQuestion
          /\ timers' = timers
          /\ selectedAnswer' = selectedAnswer
          /\ textAnswer' = textAnswer]_vars

\* submitAnswer has just rejected a whitespace-only word-cloud answer
C11_Witness ==
    /\ lastOp.op = "submitAnswer"
    /\ partQuestion.type = "word-cloud"
    /\ textAnswer = <<" ">>
    /\ ~hasAnswered
    /\ timers = <<>>

\* the step is a call of submitAnswer that accepts the answer
AcceptStep == SubmitStep /\ hasAnswered'

\* C12: every accepted submission is appended to the store as a response
\* for its question.
C12_AcceptedSubmissionStored ==
    [][AcceptStep =>
          /\ Len(store') = Len(store) + 1
          /\ store'[Len(store')].question_id = partQuestion.id]_vars

\* C14: the participant is joined only under the access code of an existing,
\* active presentation.
C14_JoinedOnlyActiveSession ==
    isJoined =>
        \E i \in 1..Len(presentations) :
            /\ presentations[i].access_code = pollCode
            /\ presentations[i].is_active

----------------------------------------------------------------------------
(* Provenance, navigation and order of the presenter's responses *)

\* C13: every entry of responses[questionId] is the response_data of a row
\* that the store holds for that question.
C13_EntriesOriginateFromStore ==
    \A q \in DOMAIN responses :
        \A i \in 1..Len(responses[q]) :
            \E j \in 1..Len(store) : store[j] = Row(q, responses[q][i])

\* entries of two questions are held, the fetch has replaced the state and
\* the INSERT callback has run since
C13_Witness ==
    /\ fetch = "done"
    /\ lastOp.op = "insert"
    /\ events = <<>>
    /\ \E q1, q2 \in DOMAIN responses :
          q1 # q2 /\ Len(responses[q1]) > 0 /\ Len(responses[q2]) > 0

\* the step is a call of nextQuestion or of prevQuestion
NavigationStep == ViewShown /\ lastOp'.op \in {"nextQuestion", "prevQuestion"}

\* C17: nextQuestion and prevQuestion leave the responses of every question
\* unchanged, and the number of responses displayed after the step is that
\* of all the responses recorded for the question then displayed.
C17_NavigationKeepsResponses ==
    [][NavigationStep =>
          /\ responses' = responses
          /\ \A q \in QuestionIds(questions) : Get(responses', q) = Get(responses, q)
          /\ responsesReceived' = Len(Get(responses, currentQuestion'.id))]_vars

\* nextQuestion has moved from the first question to the second, for which a
\* response had been recorded, and that response is displayed
C17_Witness ==
    /\ lastOp.op = "nextQuestion"
    /\ lastOp.index = 0
    /\ currentQuestionIndex = 1
    /\ ViewShown
    /\ responsesReceived > 0

\* s is an initial part of t
IsPrefix(s, t) == Len(s) <= Len(t) /\ SubSeq(t, 1, Len(s)) = s

\* C18: the list of responses of an open_ended question only grows at its
\* end: in every step the list before is an initial part of the list after.
C18_OpenEndedAppendOnly ==
    [][\A i \in 1..Len(DbQuestions) :
          DbQuestions[i].question_type = "open_ended" =>
              IsPrefix(Get(responses, DbQuestions[i].id),
                       Get(responses', DbQuestions[i].id))]_vars

----------------------------------------------------------------------------
(* The life of the presenter view: the subscription effect, its cleanup,    *)
(* a re-run of the effects and the unmount.                                 *)

\* a faulty cleanup: the channel stays registered
AfterCleanupLeaking(reg, ch) == reg

\* return () => { supabase.removeChannel(channel) }: the effect returns the
\* cleanup only when it has created a channel
AfterCleanup(reg, ch) == IF ch = "none" THEN reg ELSE reg - 1

\* presentationId changes: fetchQuestions runs again and calls setQuestions
\* with a new array; React runs the cleanup of the subscription effect, then
\* the two effects on [questions].  Taken when no fetchResponses is pending.
Refetch ==
    /\ mounted
    /\ ~loading
    /\ questions # <<>>
    /\ fetch \in {"done", "failed"}
    /\ questions' = DbQuestions
    /\ registered' = AfterCleanup(registered, channel) + 1
    /\ channel' = "joining"
    /\ events' = <<>>
    /\ fetch' = "requested"
    /\ lastOp' = Op("refetch", "")
    /\ UNCHANGED <<indexVars, mounted, partVars, creatorVars, store, loading, currentQuestionIndex,
                   responses, participantCount, fetchData>>

\* the view unmounts (onBack): React runs the cleanup of the subscription
\* effect; after it no callback and no state update reaches the component
Unmount ==
    /\ mounted
    /\ mounted' = FALSE
    /\ registered' = AfterCleanup(registered, channel)
    /\ channel' = "none"
    /\ events' = <<>>
    /\ lastOp' = Op("unmount", "")
    /\ UNCHANGED <<indexVars, partVars, creatorVars, store, loading, questions, currentQuestionIndex,
                   responses, participantCount, fetch, fetchData>>

NextLife ==
    \/ mounted /\ FetchQuestionsDone
    \/ mounted /\ FetchQuestionsError
    \/ mounted /\ ChannelJoined
    \/ Insert
    \/ mounted /\ InsertCallback
    \/ mounted /\ FetchQuery
    \/ mounted /\ FetchResponsesError
    \/ mounted /\ FetchResponsesDone
    \/ mounted /\ nextQuestion
    \/ mounted /\ prevQuestion
    \/ Refetch
    \/ Unmount

SpecLife == Init /\ [][NextLife]_vars

\* C19: the presenter view holds at most one registered channel, and holds
\* one exactly while the channel of its last effect run exists; after the
\* unmount none is registered and no event is left to be delivered.
C19_NoChannelLeak ==
    /\ registered <= 1
    /\ (registered = 1) <=> (channel # "none")
    /\ ~mounted => (registered = 0 /\ events = <<>>)

\* the view has unmounted after its channel had joined, been replaced by a
\* re-run of the effect and received a row
C19_Witness ==
    /\ ~mounted
    /\ lastOp.op = "unmount"
    /\ questions # <<>>
    /\ registered = 0
    /\ participantCount > 0

----------------------------------------------------------------------------
(* PresentationCreator: the question editor, startPresentation and the      *)
(* presenter mode it enters and leaves.                                     *)

MaxQuestions == 2       \* questions in the editor
MaxNow == 1             \* the last value of the clock
MaxPresentations == 1   \* rows of the presentations table

COp(name) == [op |-> name, question_id |-> "", index |-> 0]

\* the codes generate_access_code may return
AccessCodes == { Code_ABCD }

InitCreator ==
    /\ store = <<>>
    /\ loading = TRUE
    /\ questions = <<>>
    /\ currentQuestionIndex = 0
    /\ responses = <<>>
    /\ participantCount = 0
    /\ channel = "none"
    /\ events = <<>>
    /\ fetch = "idle"
    /\ fetchData = <<>>
    /\ lastOp = [op |-> "mount", question_id |-> "", index |-> 0]
    /\ mounted = FALSE
    /\ registered = 0
    /\ PartInit
    /\ creatorQuestions = <<>>
    /\ newQuestion = EmptyQuestion
    /\ isPresenting = FALSE
    /\ creatorPollCode = <<>>
    /\ presentationId = 0
    /\ creatorLoading = FALSE
    /\ user \in BOOLEAN
    /\ startStep = "idle"
    /\ codeData = <<>>
    /\ startQuestions = <<>>
    /\ presentations = <<>>
    /\ questionsTable = <<>>
    /\ now = 0
    /\ IndexInit

\* what the Select, the Textarea and the options Textarea set newQuestion to
NewQuestionInputs ==
    { [question_text |-> W_fun, type |-> "", options |-> <<>>],
      [question_text |-> W_fun, type |-> "multiple_choice", options |-> <<OptA, OptB>>] }

\* onValueChange / onChange of the "Add Question" form
SetNewQuestion ==
    \E q \in NewQuestionInputs :
        /\ ~isPresenting
        /\ newQuestion' = q
        /\ lastOp' = COp("setNewQuestion")
        /\ UNCHANGED <<indexVars, presenterVars, lifeVars, partVars, creatorQuestions, isPresenting,
                       creatorPollCode, presentationId, creatorLoading, user, startStep,
                       codeData, startQuestions, presentations, questionsTable, now>>

\* const question: Question = { id: Date.now().toString(), ... }
NewQuestion(qs, nq, t) ==
    [id |-> NumToStr(t),
     type |-> nq.type,
     question_text |-> nq.question_text,
     options |-> IF nq.type = "multiple_choice" THEN nq.options ELSE <<>>,
     order_index |-> Len(qs)]

\* Date.now() reads t, not before the last reading
addQuestion ==
    /\ ~isPresenting
    /\ IF newQuestion.question_text = <<>> \/ newQuestion.type = ""
       THEN UNCHANGED <<creatorQuestions, newQuestion, now>>
       ELSE \E t \in now..MaxNow :
               /\ Len(creatorQuestions) < MaxQuestions
               /\ now' = t
               /\ creatorQuestions' =
                      Append(creatorQuestions, NewQuestion(creatorQuestions, newQuestion, t))
               /\ newQuestion' = EmptyQuestion
    /\ lastOp' = COp("addQuestion")
    /\ UNCHANGED <<indexVars, presenterVars, lifeVars, partVars, isPresenting, creatorPollCode,
                   presentationId, creatorLoading, user, startStep, codeData,
                   startQuestions, presentations, questionsTable>>

\* questions.filter(q => q.id !== id)
removeQuestion ==
    \E i \in 1..Len(creatorQuestions) :
        /\ ~isPresenting
        /\ creatorQuestions' =
               SelectSeq(creatorQuestions, LAMBDA q : q.id # creatorQuestions[i].id)
        /\ lastOp' = COp("removeQuestion")
        /\ UNCHANGED <<indexVars, presenterVars, lifeVars, partVars, newQuestion, isPresenting,
                       creatorPollCode, presentationId, creatorLoading, user, startStep,
                       codeData, startQuestions, presentations, questionsTable, now>>

\* a faulty startPresentation: it enters the presenter mode before the store
\* calls
startPresentationEager ==
    /\ ~isPresenting
    /\ startStep = "idle"
    /\ IF Len(creatorQuestions) = 0 \/ ~user
       THEN UNCHANGED <<creatorLoading, startStep, startQuestions, isPresenting>>
       ELSE /\ Len(presentations) < MaxPresentations
            /\ creatorLoading' = TRUE
            /\ startStep' = "code"
            /\ startQuestions' = creatorQuestions
            /\ isPresenting' = TRUE
    /\ lastOp' = COp("startPresentation")
    /\ UNCHANGED <<indexVars, presenterVars, lifeVars, partVars, creatorQuestions, newQuestion,
                   creatorPollCode, presentationId, user, codeData,
                   presentations, questionsTable, now>>

\* startPresentation up to its first await
startPresentation ==
    /\ ~isPresenting
    /\ startStep = "idle"
    /\ IF Len(creatorQuestions) = 0 \/ ~user
       THEN UNCHANGED <<creatorLoading, startStep, startQuestions>>
       ELSE /\ Len(presentations) < MaxPresentations
            /\ creatorLoading' = TRUE
            /\ startStep' = "code"
            /\ startQuestions' = creatorQuestions
    /\ lastOp' = COp("startPresentation")
    /\ UNCHANGED <<indexVars, presenterVars, lifeVars, partVars, creatorQuestions, newQuestion,
                   isPresenting, creatorPollCode, presentationId, user, codeData,
                   presentations, questionsTable, now>>

\* rpc('generate_access_code') returns a code
CodeGenerated ==
    \E c \in AccessCodes :
        /\ startStep = "code"
        /\ codeData' = c
        /\ startStep' = "presentation"
        /\ lastOp' = COp("codeGenerated")
        /\ UNCHANGED <<indexVars, presenterVars, lifeVars, partVars, creatorQuestions, newQuestion,
                       isPresenting, creatorPollCode, presentationId, creatorLoading, user,
                       startQuestions, presentations, questionsTable, now>>

\* the presentation row is inserted, is_active: true
PresentationInserted ==
    /\ startStep = "presentation"
    /\ presentations' = Append(presentations,
           [id |-> Len(presentations) + 1, access_code |-> codeData, is_active |-> TRUE])
    /\ startStep' = "questions"
    /\ lastOp' = COp("presentationInserted")
    /\ UNCHANGED <<indexVars, presenterVars, lifeVars, partVars, creatorQuestions, newQuestion,
                   isPresenting, creatorPollCode, presentationId, creatorLoading, user,
                   codeData, startQuestions, questionsTable, now>>

\* questionsToInsert; the options column holds the JSON text of q.options
QuestionsToInsert(qs, pid) ==
    [i \in 1..Len(qs) |->
        [presentation_id |-> pid,
         question_text |-> qs[i].question_text,
         question_type |-> qs[i].type,
         options |-> qs[i].options,
         order_index |-> qs[i].order_index]]

\* the question rows are inserted; the presenter mode is entered
QuestionsInserted ==
    /\ startStep = "questions"
    /\ questionsTable' =
           questionsTable \o QuestionsToInsert(startQuestions, Len(presentations))
    /\ creatorPollCode' = codeData
    /\ presentationId' = Len(presentations)
    /\ isPresenting' = TRUE
    /\ creatorLoading' = FALSE
    /\ startStep' = "idle"
    /\ codeData' = <<>>
    /\ startQuestions' = <<>>
    /\ lastOp' = COp("questionsInserted")
    /\ UNCHANGED <<indexVars, presenterVars, lifeVars, partVars, creatorQuestions, newQuestion, user,
                   presentations, now>>

\* one of the three store calls returns an error: catch (toast), finally
StartFailed ==
    /\ startStep # "idle"
    /\ creatorLoading' = FALSE
    /\ startStep' = "idle"
    /\ codeData' = <<>>
    /\ startQuestions' = <<>>
    /\ lastOp' = COp("startFailed")
    /\ UNCHANGED <<indexVars, presenterVars, lifeVars, partVars, creatorQuestions, newQuestion,
                   isPresenting, creatorPollCode, presentationId, user, presentations,
                   questionsTable, now>>

\* onBack={() => setIsPresenting(false)}
onBack ==
    /\ isPresenting
    /\ isPresenting' = FALSE
    /\ lastOp' = COp("onBack")
    /\ UNCHANGED <<indexVars, presenterVars, lifeVars, partVars, creatorQuestions, newQuestion,
                   creatorPollCode, presentationId, creatorLoading, user, startStep,
                   codeData, startQuestions, presentations, questionsTable, now>>

NextCreator ==
    \/ SetNewQuestion
    \/ addQuestion
    \/ removeQuestion
    \/ startPresentation
    \/ CodeGenerated
    \/ PresentationInserted
    \/ QuestionsInserted
    \/ StartFailed
    \/ onBack

SpecCreator == InitCreator /\ [][NextCreator]_vars

\* C15: once the presenter has left the presenter view through onBack, the
\* presentation it showed is inactive.
C15_EndedSessionInactive ==
    (lastOp.op = "onBack") =>
        \A i \in 1..Len(presentations) :
            presentations[i].id = presentationId => ~presentations[i].is_active

\* C20: the order_index values of the editor's questions are pairwise
\* distinct and each is the position of its question in the list.
C20_OrderIndexIsPosition ==
    /\ \A i \in 1..Len(creatorQuestions) : creatorQuestions[i].order_index = i - 1
    /\ \A i, j \in 1..Len(creatorQuestions) :
          i # j => creatorQuestions[i].order_index # creatorQuestions[j].order_index

----------------------------------------------------------------------------
(* The presenter, loaded, subscribed and past its fetch, on a channel that  *)
(* may lose a payload.                                                      *)

InitLossy ==
    /\ store = <<>>
    /\ loading = FALSE
    /\ questions = DbQuestions
    /\ currentQuestionIndex = 0
    /\ responses = <<>>
    /\ participantCount = 0
    /\ channel = "joined"
    /\ events = <<>>
    /\ fetch = "done"
    /\ fetchData = <<>>
    /\ lastOp = [op |-> "fetchResponses", question_id |-> "", index |-> 0]
    /\ mounted = TRUE
    /\ registered = 1
    /\ PartInit
    /\ CreatorInit
    /\ IndexInit

\* the payload at the head of the channel never reaches the callback
LoseEvent ==
    /\ events # <<>>
    /\ events' = Tail(events)
    /\ lastOp' = Op("lost", Head(events).question_id)
    /\ UNCHANGED <<indexVars, lifeVars, partVars, creatorVars, store, loading, questions,
                   currentQuestionIndex, responses, participantCount, channel, fetch,
                   fetchData>>

NextLossy ==
    \/ Insert
    \/ InsertCallback
    \/ LoseEvent
    \/ nextQuestion
    \/ prevQuestion

SpecLossy == InitLossy /\ [][NextLossy]_vars

\* C16: when an INSERT event for a question has been delivered and none for
\* it is in flight, responses[question_id] is the list of all the responses
\* stored for the question, whether or not earlier events were lost.
C16_NextEventCarriesFullAggregate ==
    (/\ lastOp.op = "insert"
     /\ \A i \in 1..Len(events) : events[i].question_id # lastOp.question_id)
        => Get(responses, lastOp.question_id) = DataOf(RowsOf(store, lastOp.question_id))

----------------------------------------------------------------------------
(* startPresentation, step by step *)

\* the step is a call of startPresentation
StartCallStep == ~isPresenting /\ startStep = "idle" /\ lastOp'.op = "startPresentation"

\* the row of the presentations table with the id pid, if there is one
PresentationRows(pid) == SelectSeq(presentations, LAMBDA p : p.id = pid)

\* C21: the presenter mode is entered only by the step that follows the
\* successful questions insert, itself after the presentation insert
\* (is_active true), itself after the code generation, with pollCode and
\* presentationId those of the inserted presentation; a call with no
\* question or no user starts no store call; a failed step leaves
\* isPresenting false; when startPresentation finishes loading is false.
C21_PresenterModeAfterAllInserts ==
    [][/\ (~isPresenting /\ isPresenting') =>
              /\ startStep = "questions"
              /\ lastOp'.op = "questionsInserted"
              /\ creatorPollCode' = codeData
              /\ Len(PresentationRows(presentationId')) = 1
              /\ PresentationRows(presentationId')[1].is_active
              /\ PresentationRows(presentationId')[1].access_code = creatorPollCode'
              /\ questionsTable' =
                     questionsTable \o QuestionsToInsert(startQuestions, presentationId')
       /\ (startStep # "questions" /\ startStep' = "questions") =>
              /\ startStep = "presentation"
              /\ Len(presentations') = Len(presentations) + 1
              /\ presentations'[Len(presentations')].is_active
              /\ presentations'[Len(presentations')].access_code = codeData
       /\ (startStep # "presentation" /\ startStep' = "presentation") =>
              /\ startStep = "code"
              /\ codeData' \in AccessCodes
       /\ (startStep # "code" /\ startStep' = "code") =>
              /\ StartCallStep
              /\ Len(creatorQuestions) > 0
              /\ user
       /\ (StartCallStep /\ (Len(creatorQuestions) = 0 \/ ~user)) =>
              /\ startStep' = "idle"
              /\ UNCHANGED <<creatorLoading, isPresenting, presentations, questionsTable>>
       /\ (lastOp'.op = "startFailed" /\ startStep # "idle") =>
              /\ ~isPresenting'
              /\ UNCHANGED <<creatorPollCode, presentationId>>
       /\ (startStep # "idle" /\ startStep' = "idle") => ~creatorLoading'
       /\ presentations' # presentations => startStep = "presentation"
       /\ questionsTable' # questionsTable => startStep = "questions"]_vars

\* the presenter mode has just been entered, for the presentation inserted
C21_Witness ==
    /\ lastOp.op = "questionsInserted"
    /\ isPresenting
    /\ ~creatorLoading
    /\ creatorPollCode = Code_ABCD
    /\ presentationId = 1
    /\ Len(questionsTable) = 2

----------------------------------------------------------------------------
(* The participants figure of the presenter *)

\* the number of entries of the lists of resp under the keys ks
RECURSIVE EntriesUnder(_, _)
EntriesUnder(resp, ks) ==
    IF ks = {} THEN 0
    ELSE LET k == CHOOSE x \in ks : TRUE
         IN Len(resp[k]) + EntriesUnder(resp, ks \ {k})

TotalEntries(resp) == EntriesUnder(resp, DOMAIN resp)

\* C22: participantCount is the number of entries of all the lists of
\* responses, however the completion of fetchResponses and the INSERT
\* callbacks interleave.
C22_ParticipantCountIsTotalEntries ==
    participantCount = TotalEntries(responses)

\* the fetch has completed with a row and the INSERT callback has since
\* recorded a response for another question
C22_Witness ==
    /\ fetch = "done"
    /\ Len(fetchData) = 1
    /\ lastOp.op = "insert"
    /\ lastOp.question_id # fetchData[1].question_id
    /\ participantCount = 2

----------------------------------------------------------------------------
(* The participant's progress through the questions *)

LastQuestion == Len(mockQuestions) - 1

\* C23: no submitAnswer is issued while hasAnswered is true, so no second
\* timer is started for a question; the question index never decreases,
\* never exceeds the last index and moves only from i to i + 1, and it moves
\* exactly when hasAnswered goes back to false: each question has at most
\* one accepted submission.
C23_OneAcceptedSubmissionPerQuestion ==
    [][/\ hasAnswered => (lastOp'.op # "submitAnswer" /\ Len(timers') <= Len(timers))
       /\ hasAnswered' => Len(timers') <= 1
       /\ partCurrentQuestion' \in {partCurrentQuestion, partCurrentQuestion + 1}
       /\ partCurrentQuestion' <= LastQuestion
       /\ (partCurrentQuestion' # partCurrentQuestion) <=> (hasAnswered /\ ~hasAnswered')]_vars

\* every question has been answered and the last timer has fired
C23_Witness ==
    /\ lastOp.op = "timer"
    /\ partCurrentQuestion = LastQuestion
    /\ hasAnswered
    /\ timers = <<>>

\* setTimeout runs its callback
SpecPartFair == SpecPart /\ WF_vars(TimerFires)

\* C24: when the timer of an answer accepted on a question that is not the
\* last fires, the index goes up by one, selectedAnswer is null, textAnswer
\* is empty and hasAnswered is false, and the timer does fire; on the last
\* question an accepted answer leaves the index and hasAnswered stays true.
C24_TimerAdvancesAndResets ==
    /\ [][/\ (lastOp'.op = "timer" /\ timers # <<>> /\ partCurrentQuestion < LastQuestion) =>
                 /\ partCurrentQuestion' = partCurrentQuestion + 1
                 /\ selectedAnswer' = Null
                 /\ textAnswer' = <<>>
                 /\ ~hasAnswered'
          /\ (hasAnswered /\ partCurrentQuestion = LastQuestion) =>
                 /\ hasAnswered'
                 /\ partCurrentQuestion' = partCurrentQuestion]_vars
    /\ \A i \in 0..(LastQuestion - 1) :
          (hasAnswered /\ partCurrentQuestion = i)
              ~> (~hasAnswered /\ partCurrentQuestion = i + 1)

\* the timer of the first question's accepted answer has fired
C24_Witness ==
    /\ lastOp.op = "timer"
    /\ partCurrentQuestion = 1
    /\ ~hasAnswered
    /\ selectedAnswer = Null
    /\ textAnswer = <<>>
    /\ timers = <<>>

----------------------------------------------------------------------------
(* Index: the home page, the creator and the participant view it renders,   *)
(* and the Auth page at "/auth".                                            *)

IndexOp(name) == [op |-> name, question_id |-> "", index |-> 0]

\* a faulty render: the creator whatever the user
ViewUnguarded(cv, u) ==
    IF cv = "create" THEN "creator"
    ELSE IF cv = "join" THEN "participant"
    ELSE "home"

\* what Index returns
View(cv, u) ==
    IF cv = "create" THEN (IF ~u THEN "null" ELSE "creator")
    ELSE IF cv = "join" THEN "participant"
    ELSE "home"

\* the render that follows a state change: navigate('/auth') in the
\* branch that returns null
AfterRender(cv, u, r) == IF r = "/" /\ View(cv, u) = "null" THEN "/auth" ELSE r

\* what Index renders, while the router shows it
IndexRenders == View(currentView, user)

IndexShows(v) == route = "/" /\ IndexRenders = v

creatorStateVars == <<creatorQuestions, newQuestion, isPresenting, creatorPollCode,
                      presentationId, creatorLoading, startStep, codeData,
                      startQuestions, presentations, questionsTable, now>>

InitIndex == InitCreator /\ user = FALSE

\* onClick of "Create Presentation"
ClickCreate ==
    /\ IndexShows("home")
    /\ IF user
       THEN /\ currentView' = "create"
            /\ route' = AfterRender("create", user, route)
       ELSE /\ route' = "/auth"
            /\ UNCHANGED currentView
    /\ lastOp' = IndexOp("clickCreate")
    /\ UNCHANGED <<presenterVars, lifeVars, partVars, creatorVars>>

\* onClick of "Join with Code"
ClickJoin ==
    /\ IndexShows("home")
    /\ currentView' = "join"
    /\ lastOp' = IndexOp("clickJoin")
    /\ UNCHANGED <<presenterVars, lifeVars, partVars, creatorVars, route>>

\* onClick of "Sign In"
ClickSignIn ==
    /\ IndexShows("home")
    /\ ~user
    /\ route' = "/auth"
    /\ lastOp' = IndexOp("clickSignIn")
    /\ UNCHANGED <<presenterVars, lifeVars, partVars, creatorVars, currentView>>

\* handleSignOut
handleSignOut ==
    /\ IndexShows("home")
    /\ user
    /\ user' = FALSE
    /\ route' = AfterRender(currentView, FALSE, route)
    /\ lastOp' = IndexOp("handleSignOut")
    /\ UNCHANGED <<presenterVars, lifeVars, partVars, creatorStateVars, currentView>>

\* useAuth().user changes under the page: the session ends, or the user
\* signs in or out in another tab
SessionChange ==
    /\ route = "/"
    /\ user' = ~user
    /\ route' = AfterRender(currentView, ~user, route)
    /\ lastOp' = IndexOp("sessionChange")
    /\ UNCHANGED <<presenterVars, lifeVars, partVars, creatorStateVars, currentView>>

\* onBack={() => setCurrentView('home')}; the state of the view left is
\* discarded and its pending timers reach no component
IndexOnBack ==
    /\ IndexShows("creator") \/ IndexShows("participant")
    /\ currentView' = "home"
    /\ pollCode' = <<>>
    /\ isJoined' = FALSE
    /\ partCurrentQuestion' = 0
    /\ selectedAnswer' = Null
    /\ textAnswer' = <<>>
    /\ hasAnswered' = FALSE
    /\ timers' = <<>>
    /\ lastOp' = IndexOp("onBack")
    /\ UNCHANGED <<presenterVars, lifeVars, creatorVars, route>>

\* Auth: signIn succeeds, navigate("/"); Index mounts anew
AuthSignedIn ==
    /\ route = "/auth"
    /\ user' = TRUE
    /\ route' = "/"
    /\ currentView' = "home"
    /\ lastOp' = IndexOp("signedIn")
    /\ UNCHANGED <<presenterVars, lifeVars, partVars, creatorStateVars>>

\* Auth: "Back to Home", navigate("/")
AuthBack ==
    /\ route = "/auth"
    /\ route' = "/"
    /\ currentView' = "home"
    /\ lastOp' = IndexOp("authBack")
    /\ UNCHANGED <<presenterVars, lifeVars, partVars, creatorVars>>

NextIndexPage ==
    \/ ClickCreate
    \/ ClickJoin
    \/ ClickSignIn
    \/ handleSignOut
    \/ SessionChange
    \/ IndexOnBack
    \/ AuthSignedIn
    \/ AuthBack
    \/ IndexShows("participant") /\ SetPollCode
    \/ IndexShows("participant") /\ joinPoll
    \/ IndexShows("participant") /\ SelectAnswer
    \/ IndexShows("participant") /\ TypeAnswer
    \/ IndexShows("participant") /\ submitAnswer
    \/ IndexShows("participant") /\ TimerFires

SpecIndex == InitIndex /\ [][NextIndexPage]_vars

\* C25: the creator is rendered only while a user is signed in; with
\* currentView = 'create' and no user Index renders nothing and the router
\* has been sent to /auth.
C25_CreatorOnlyWhenSignedIn ==
    /\ IndexRenders = "creator" => user
    /\ (currentView = "create" /\ ~user) => (IndexRenders = "null" /\ route = "/auth")

\* the user was lost while the creator was shown
C25_Witness ==
    /\ lastOp.op = "sessionChange"
    /\ currentView = "create"
    /\ ~user
    /\ route = "/auth"

\* the participant view is shown with no user signed in
JoinWithoutUser == IndexShows("participant") /\ ~user /\ isJoined

=============================================================================
